---------------------------- MODULE Spec2Model ----------------------------
(***************************************************************************)
(* Model of the change tracker of morph-server: class GitHubAPIBot of      *)
(* github_bot.py (the two snapshots initial_files / current_files, the     *)
(* classification get_changes, the renderer generate_patch and the summary *)
(* get_changed_files_summary), and of the request handler that drives it,  *)
(* process_claude_request of main.py.                                      *)
(*                                                                         *)
(* A text is a sequence of one-character strings.  A dict is a function    *)
(* whose DOMAIN is its key set.  Dict objects live in `heap`; the          *)
(* attributes initial_files and current_files hold references to them, so  *)
(* that aliasing of the two snapshots is expressible.                      *)
(***************************************************************************)
EXTENDS Integers, Sequences, FiniteSets, TLC

VARIABLES
    heap,           \* object id -> dict (path -> content)
    initial_files,  \* self.initial_files: a reference into heap
    current_files,  \* self.current_files: a reference into heap
    pc,             \* "constructed" after __init__, "tracking" after initialize_tracking
    ret,            \* the last call: [op, value, exc]
    patch_lines,    \* generate_patch's local patch_lines at its return
    iteration,      \* the order in which the sets of the last call iterated
    log,            \* the track_file_* calls made since the snapshots were taken
    request,        \* the /process requests in flight: request id -> its locals
    scratch,        \* the file system: request id -> its temporary directory
    cwd             \* the working directory of the server process

vars == <<heap, initial_files, current_files, pc, ret, patch_lines,
          iteration, log, request, scratch, cwd>>

\* the variables of one GitHubAPIBot used on its own
store_vars == <<heap, initial_files, current_files, pc, ret, patch_lines>>

\* the variables of the request handler
server_vars == <<request, scratch, cwd>>

-----------------------------------------------------------------------------
(* Bounds *)

\* number of repository paths the store model ranges over
MaxPaths == 3

\* most terminated lines of a text of the rendering model
MaxLines == 2

-----------------------------------------------------------------------------
(* Characters and texts *)

NL == "\n"
SP == " "

\* Unicode code point of the characters the model uses (str comparison order)
ord(ch) ==
    CASE ch = "\n" -> 10
      [] ch = " " -> 32
      [] ch = "+" -> 43
      [] ch = "," -> 44
      [] ch = "-" -> 45
      [] ch = "." -> 46
      [] ch = "/" -> 47
      [] ch = "0" -> 48
      [] ch = "1" -> 49
      [] ch = "2" -> 50
      [] ch = "3" -> 51
      [] ch = "4" -> 52
      [] ch = "5" -> 53
      [] ch = "6" -> 54
      [] ch = "7" -> 55
      [] ch = "8" -> 56
      [] ch = "9" -> 57
      [] ch = "@" -> 64
      [] ch = "B" -> 66
      [] ch = "Z" -> 90
      [] ch = "[" -> 91
      [] ch = "]" -> 93
      [] ch = "a" -> 97
      [] ch = "b" -> 98
      [] ch = "d" -> 100
      [] ch = "e" -> 101
      [] ch = "f" -> 102
      [] ch = "i" -> 105
      [] ch = "l" -> 108
      [] ch = "n" -> 110
      [] ch = "r" -> 114
      [] ch = "u" -> 117
      [] ch = "v" -> 118
      [] ch = "y" -> 121
      [] OTHER -> 0

\* the marker get_all_files stores for content that does not decode: "[Binary file]"
BinarySentinel == <<"[", "B", "i", "n", "a", "r", "y", " ", "f", "i", "l", "e", "]">>

\* Python's str < str: lexicographic by code point, a proper prefix first
RECURSIVE str_lt(_, _)
str_lt(s, t) ==
    IF t = <<>> THEN FALSE
    ELSE IF s = <<>> THEN TRUE
    ELSE IF Head(s) = Head(t) THEN str_lt(Tail(s), Tail(t))
    ELSE ord(Head(s)) < ord(Head(t))

\* sorted(S) for a set of str
RECURSIVE sorted(_)
sorted(S) ==
    IF S = {} THEN <<>>
    ELSE LET m == CHOOSE x \in S : \A y \in S \ {x} : str_lt(x, y)
         IN  <<m>> \o sorted(S \ {m})

-----------------------------------------------------------------------------
(* Dicts *)

EmptyDict == <<>>

keys(d) == DOMAIN d

\* d[k] = v
dict_set(d, k, v) == [x \in (DOMAIN d) \cup {k} |-> IF x = k THEN v ELSE d[x]]

\* del d[k]
dict_del(d, k) == [x \in (DOMAIN d) \ {k} |-> d[x]]

-----------------------------------------------------------------------------
(* Inputs of the store model *)

\* repository paths, in the order the bound admits them
PathPool == << <<"b">>, <<"a", "b">>, <<"Z">>, <<"a">>, <<"a", ".", "b">> >>

Paths == {PathPool[i] : i \in 1..(IF MaxPaths < Len(PathPool) THEN MaxPaths ELSE Len(PathPool))}

\* texts of the repository files of the store model
RepoTexts == { <<"a", NL>> }

\* texts a caller records in the store model
StoreTexts == RepoTexts \cup { <<"a">> }

\* a repository blob: text that decodes, or bytes that do not
Blob(decodes, text) == [decodable |-> decodes, text |-> text]

StoreBlobs == {Blob(TRUE, t) : t \in RepoTexts} \cup {Blob(FALSE, <<>>)}

\* contents a caller records: any text, the marker's text included
StoreContents == StoreTexts \cup {BinarySentinel}

Repos(paths, blobs) == UNION {[D -> blobs] : D \in SUBSET paths}

-----------------------------------------------------------------------------
(* GitHubAPIBot: the snapshot store *)

None == [none |-> TRUE]

Return(op, value) == [op |-> op, value |-> value, exc |-> "none"]

Raise(op, exc) == [op |-> op, value |-> None, exc |-> exc]

InitialFiles == heap[initial_files]

CurrentFiles == heap[current_files]

\* the directory the server process was started in
ServerDir == "server"

\* no response sent yet
NoResponse == [status_code |-> 0, patch |-> <<>>, changed_files |-> None]

\* the locals of a request the handler has not started on.  own, touched
\* and seen are records for the statements about the handler: the
\* directory as the request's own writes and its own agent's edits of it
\* make it, the paths its agent edited, and the directory as the walk
\* found it.
Accepted ==
    [pc |-> "accepted",
     initial_files |-> EmptyDict,
     current_files |-> EmptyDict,
     agent_dir |-> ServerDir,
     edits |-> 0,
     own |-> EmptyDict,
     touched |-> {},
     seen |-> EmptyDict,
     response |-> NoResponse]

\* a server process with the requests `ids` accepted and none yet handled
Serving(ids) ==
    /\ request = [r \in ids |-> Accepted]
    /\ scratch = [r \in ids |-> [exists |-> FALSE, files |-> EmptyDict]]
    /\ cwd = ServerDir

\* __init__: two fresh empty dicts
GitHubAPIBot ==
    /\ heap = [o \in {"o1", "o2"} |-> EmptyDict]
    /\ initial_files = "o1"
    /\ current_files = "o2"
    /\ pc = "constructed"
    /\ ret = Return("__init__", None)
    /\ patch_lines = <<>>
    /\ iteration = <<>>
    /\ log = <<>>

\* a bot on its own, no request being served
Init == GitHubAPIBot /\ Serving({})

\* get_all_files: every blob of the branch, decoded, or the marker when
\* decoding raises
get_all_files(repo) ==
    [p \in DOMAIN repo |->
        IF repo[p].decodable THEN repo[p].text ELSE BinarySentinel]

\* variant: no copy, the same object under both attributes
dict_copy_alias(src, fresh) == src

\* dict.copy(): the reference of the copy, a fresh object
dict_copy(src, fresh) == fresh

initialize_tracking(repo) ==
    /\ pc = "constructed"
    /\ LET files == get_all_files(repo)
       IN  /\ heap' = [o \in {"o1", "o2"} |-> files]
           /\ initial_files' = "o1"
           /\ current_files' = dict_copy("o1", "o2")
    /\ pc' = "tracking"
    /\ ret' = Return("initialize_tracking", None)
    /\ patch_lines' = <<>>

\* the dict track_file_change leaves in current_files
change_result(d, file_path, content) == dict_set(d, file_path, content)

track_file_change(file_path, content) ==
    /\ heap' = [heap EXCEPT ![current_files] =
                    change_result(heap[current_files], file_path, content)]
    /\ ret' = Return("track_file_change", None)
    /\ patch_lines' = <<>>
    /\ UNCHANGED <<initial_files, current_files, pc>>

\* variant: del without the membership test
deletion_unguarded(d, file_path) ==
    IF file_path \in keys(d)
    THEN [dict |-> dict_del(d, file_path), exc |-> "none"]
    ELSE [dict |-> d, exc |-> "KeyError"]

\* variant: the entry is kept, with empty content
deletion_blanking(d, file_path) ==
    IF file_path \in keys(d)
    THEN [dict |-> dict_set(d, file_path, <<>>), exc |-> "none"]
    ELSE [dict |-> d, exc |-> "none"]

\* the outcome of track_file_deletion on dict d: the dict left and the
\* exception raised ("none": no exception)
deletion_result(d, file_path) ==
    IF file_path \in keys(d)
    THEN [dict |-> dict_del(d, file_path), exc |-> "none"]
    ELSE [dict |-> d, exc |-> "none"]

track_file_deletion(file_path) ==
    /\ LET r == deletion_result(heap[current_files], file_path)
       IN  /\ heap' = [heap EXCEPT ![current_files] = r.dict]
           /\ ret' = IF r.exc = "none"
                     THEN Return("track_file_deletion", None)
                     ELSE Raise("track_file_deletion", r.exc)
    /\ patch_lines' = <<>>
    /\ UNCHANGED <<initial_files, current_files, pc>>


-----------------------------------------------------------------------------
(* GitHubAPIBot.get_changes: the classifier *)

\* variant: the difference taken the wrong way round
added_swapped(initial, current) == keys(initial) \ keys(current)

\* current_keys - initial_keys
added_files(initial, current) == keys(current) \ keys(initial)

\* initial_keys - current_keys
deleted_files(initial, current) == keys(initial) \ keys(current)

\* variant: the loop run over every current key
modified_any_current(initial, current) ==
    {file_path \in keys(current) :
        file_path \notin keys(initial) \/ initial[file_path] # current[file_path]}

\* variant: a marker entry always counted as modified
modified_binary_always(initial, current) ==
    {file_path \in keys(initial) \cap keys(current) :
        \/ initial[file_path] # current[file_path]
        \/ initial[file_path] = BinarySentinel}

\* the loop over initial_keys & current_keys, adding the paths whose two
\* contents differ under !=
modified_files(initial, current) ==
    {file_path \in keys(initial) \cap keys(current) :
        initial[file_path] # current[file_path]}

\* the tuple get_changes returns: (added, modified, deleted)
changes(initial, current) ==
    << added_files(initial, current),
       modified_files(initial, current),
       deleted_files(initial, current) >>

get_changes ==
    /\ ret' = Return("get_changes", changes(InitialFiles, CurrentFiles))
    /\ patch_lines' = <<>>
    /\ UNCHANGED <<heap, initial_files, current_files, pc>>

-----------------------------------------------------------------------------
(* str methods used by generate_patch *)

\* the line boundaries str.splitlines knows, among the model's characters
LineBreaks == {"\n", "\r"}

\* the characters str.rstrip() strips, among the model's characters
Whitespace == {" ", "\t", "\n", "\r"}

\* index of the first line break of s, 0 when it has none
first_break(s) ==
    IF \E i \in 1..Len(s) : s[i] \in LineBreaks
    THEN CHOOSE i \in 1..Len(s) :
            /\ s[i] \in LineBreaks
            /\ \A j \in 1..(i - 1) : s[j] \notin LineBreaks
    ELSE 0

\* s.splitlines(keepends=True): "\r\n" is one boundary
RECURSIVE splitlines(_)
splitlines(s) ==
    IF s = <<>> THEN <<>>
    ELSE LET k == first_break(s)
             e == IF k > 0 /\ k < Len(s) /\ s[k] = "\r" /\ s[k + 1] = "\n"
                  THEN k + 1 ELSE k
         IN  IF k = 0 THEN <<s>>
             ELSE <<SubSeq(s, 1, e)>> \o splitlines(SubSeq(s, e + 1, Len(s)))

\* line.rstrip(): every trailing whitespace character removed
RECURSIVE rstrip(_)
rstrip(s) ==
    IF s # <<>> /\ s[Len(s)] \in Whitespace
    THEN rstrip(SubSeq(s, 1, Len(s) - 1))
    ELSE s

\* sep.join(lines)
RECURSIVE join(_, _)
join(sep, lines) ==
    IF lines = <<>> THEN <<>>
    ELSE IF Len(lines) = 1 THEN lines[1]
    ELSE lines[1] \o sep \o join(sep, Tail(lines))

Digit == <<"0", "1", "2", "3", "4", "5", "6", "7", "8", "9">>

\* '{}'.format(n) for an int n >= 0
RECURSIVE str_of_int(_)
str_of_int(n) ==
    IF n < 10 THEN <<Digit[n + 1]>>
    ELSE str_of_int(n \div 10) \o <<Digit[(n % 10) + 1]>>

\* [f(x) for x in xs]
prefixed(prefix, xs) == [i \in 1..Len(xs) |-> prefix \o xs[i]]

-----------------------------------------------------------------------------
(* difflib.unified_diff as generate_patch calls it: sequences a and b of   *)
(* lines, n = 3 lines of context, lineterm = '', no junk heuristic (the    *)
(* popularity heuristic needs 200 lines or more).  Indices are Python's:   *)
(* 0-based, ranges half-open; a[i] is written a[i + 1] here.               *)

\* unified_diff's default n, which the call leaves unset
ContextLines == 3

Max(x, y) == IF x > y THEN x ELSE y

Min(x, y) == IF x < y THEN x ELSE y

Match(i, j, size) == [i |-> i, j |-> j, size |-> size]

\* j2len of find_longest_match: the length of the longest common run that
\* ends with a[i] and b[j] and lies inside a[alo:] and b[blo:]
RECURSIVE run_len(_, _, _, _, _, _)
run_len(a, b, i, j, alo, blo) ==
    IF i < alo \/ j < blo THEN 0
    ELSE IF a[i + 1] # b[j + 1] THEN 0
    ELSE 1 + run_len(a, b, i - 1, j - 1, alo, blo)

\* SequenceMatcher.find_longest_match: the scan keeps the first (i, j), in
\* the order of its loops (i ascending, then j ascending), whose run is
\* longer than every run seen before
find_longest_match(a, b, alo, ahi, blo, bhi) ==
    LET ends == {e \in (alo..(ahi - 1)) \X (blo..(bhi - 1)) :
                    run_len(a, b, e[1], e[2], alo, blo) > 0}
    IN  IF ends = {} THEN Match(alo, blo, 0)
        ELSE LET len(e) == run_len(a, b, e[1], e[2], alo, blo)
                 best == CHOOSE e \in ends :
                            \A f \in ends \ {e} :
                                \/ len(f) < len(e)
                                \/ /\ len(f) = len(e)
                                   /\ \/ e[1] < f[1]
                                      \/ e[1] = f[1] /\ e[2] < f[2]
                 k == len(best)
             IN  Match(best[1] - k + 1, best[2] - k + 1, k)

\* the queue loop of get_matching_blocks followed by its sort: the blocks
\* left of the longest match, the match, the blocks right of it
RECURSIVE matching_blocks(_, _, _, _, _, _)
matching_blocks(a, b, alo, ahi, blo, bhi) ==
    LET x == find_longest_match(a, b, alo, ahi, blo, bhi)
    IN  IF x.size = 0 THEN <<>>
        ELSE (IF alo < x.i /\ blo < x.j
              THEN matching_blocks(a, b, alo, x.i, blo, x.j) ELSE <<>>)
             \o <<x>>
             \o (IF x.i + x.size < ahi /\ x.j + x.size < bhi
                 THEN matching_blocks(a, b, x.i + x.size, ahi, x.j + x.size, bhi)
                 ELSE <<>>)

\* the loop that collapses adjacent blocks; cur is (i1, j1, k1)
RECURSIVE collapse(_, _, _)
collapse(blocks, n, cur) ==
    IF n > Len(blocks)
    THEN IF cur.size > 0 THEN <<cur>> ELSE <<>>
    ELSE LET blk == blocks[n]
         IN  IF cur.i + cur.size = blk.i /\ cur.j + cur.size = blk.j
             THEN collapse(blocks, n + 1, Match(cur.i, cur.j, cur.size + blk.size))
             ELSE (IF cur.size > 0 THEN <<cur>> ELSE <<>>)
                  \o collapse(blocks, n + 1, blk)

\* SequenceMatcher.get_matching_blocks: ends with the sentinel (la, lb, 0)
get_matching_blocks(a, b) ==
    collapse(matching_blocks(a, b, 0, Len(a), 0, Len(b)), 1, Match(0, 0, 0))
    \o <<Match(Len(a), Len(b), 0)>>

Opcode(tag, i1, i2, j1, j2) == [tag |-> tag, i1 |-> i1, i2 |-> i2, j1 |-> j1, j2 |-> j2]

\* the loop of get_opcodes from block n on, (i, j) being where it stands
RECURSIVE opcodes_from(_, _, _, _)
opcodes_from(blocks, n, i, j) ==
    IF n > Len(blocks) THEN <<>>
    ELSE LET blk == blocks[n]
             tag == IF i < blk.i /\ j < blk.j THEN "replace"
                    ELSE IF i < blk.i THEN "delete"
                    ELSE IF j < blk.j THEN "insert"
                    ELSE ""
         IN  (IF tag # "" THEN <<Opcode(tag, i, blk.i, j, blk.j)>> ELSE <<>>)
             \o (IF blk.size > 0
                 THEN <<Opcode("equal", blk.i, blk.i + blk.size, blk.j, blk.j + blk.size)>>
                 ELSE <<>>)
             \o opcodes_from(blocks, n + 1, blk.i + blk.size, blk.j + blk.size)

\* SequenceMatcher.get_opcodes
get_opcodes(a, b) == opcodes_from(get_matching_blocks(a, b), 1, 0, 0)

\* the fix-up of the leading and the trailing group of get_grouped_opcodes
trimmed_codes(codes0, n) ==
    LET codes == IF codes0 = <<>> THEN <<Opcode("equal", 0, 1, 0, 1)>> ELSE codes0
        c1 == codes[1]
        lead == IF c1.tag = "equal"
                THEN [codes EXCEPT ![1] =
                        Opcode("equal", Max(c1.i1, c1.i2 - n), c1.i2,
                               Max(c1.j1, c1.j2 - n), c1.j2)]
                ELSE codes
        cl == lead[Len(lead)]
    IN  IF cl.tag = "equal"
        THEN [lead EXCEPT ![Len(lead)] =
                Opcode("equal", cl.i1, Min(cl.i2, cl.i1 + n),
                       cl.j1, Min(cl.j2, cl.j1 + n))]
        ELSE lead

\* the grouping loop of get_grouped_opcodes from code k on, `group` being
\* the group under construction
RECURSIVE group_loop(_, _, _, _)
group_loop(codes, k, group, n) ==
    IF k > Len(codes)
    THEN IF group # <<>> /\ ~(Len(group) = 1 /\ group[1].tag = "equal")
         THEN <<group>> ELSE <<>>
    ELSE LET c == codes[k]
         IN  IF c.tag = "equal" /\ c.i2 - c.i1 > n + n
             THEN <<Append(group, Opcode("equal", c.i1, Min(c.i2, c.i1 + n),
                                         c.j1, Min(c.j2, c.j1 + n)))>>
                  \o group_loop(codes, k + 1,
                                <<Opcode("equal", Max(c.i1, c.i2 - n), c.i2,
                                         Max(c.j1, c.j2 - n), c.j2)>>, n)
             ELSE group_loop(codes, k + 1, Append(group, c), n)

\* SequenceMatcher.get_grouped_opcodes(n)
get_grouped_opcodes(a, b, n) == group_loop(trimmed_codes(get_opcodes(a, b), n), 1, <<>>, n)

\* difflib._format_range_unified
format_range_unified(start, stop) ==
    LET beginning == start + 1
        length == stop - start
    IN  IF length = 1 THEN str_of_int(beginning)
        ELSE str_of_int(IF length = 0 THEN beginning - 1 ELSE beginning)
             \o <<",">> \o str_of_int(length)

\* the lines unified_diff yields for one opcode
opcode_lines(a, b, c) ==
    IF c.tag = "equal"
    THEN prefixed(<<" ">>, SubSeq(a, c.i1 + 1, c.i2))
    ELSE (IF c.tag \in {"replace", "delete"}
          THEN prefixed(<<"-">>, SubSeq(a, c.i1 + 1, c.i2)) ELSE <<>>)
         \o (IF c.tag \in {"replace", "insert"}
             THEN prefixed(<<"+">>, SubSeq(b, c.j1 + 1, c.j2)) ELSE <<>>)

RECURSIVE flatten(_)
flatten(seqs) == IF seqs = <<>> THEN <<>> ELSE Head(seqs) \o flatten(Tail(seqs))

\* the hunk header and the body of one group
hunk_lines(a, b, group) ==
    LET first == group[1]
        last == group[Len(group)]
    IN  << <<"@", "@", " ", "-">> \o format_range_unified(first.i1, last.i2)
           \o <<" ", "+">> \o format_range_unified(first.j1, last.j2)
           \o <<" ", "@", "@">> >>
        \o flatten([k \in 1..Len(group) |-> opcode_lines(a, b, group[k])])

\* list(difflib.unified_diff(a, b, lineterm='')): the two file headers
\* '--- ' and '+++ ' (fromfile and tofile are ''), then every hunk
unified_diff(a, b) ==
    LET groups == get_grouped_opcodes(a, b, ContextLines)
    IN  IF groups = <<>> THEN <<>>
        ELSE << <<"-", "-", "-", " ">>, <<"+", "+", "+", " ">> >>
             \o flatten([g \in 1..Len(groups) |-> hunk_lines(a, b, groups[g])])

-----------------------------------------------------------------------------
(* GitHubAPIBot.generate_patch *)

DevNull == <<"/", "d", "e", "v", "/", "n", "u", "l", "l">>

FromPrefix == <<"-", "-", "-", " ">>

ToPrefix == <<"+", "+", "+", " ">>

\* the lines appended for one deleted path
deleted_block(initial, file_path) ==
    << FromPrefix \o <<"a", "/">> \o file_path, ToPrefix \o DevNull >>
    \o LET lines == splitlines(initial[file_path])
       IN  [i \in 1..Len(lines) |-> <<"-">> \o rstrip(lines[i])]
    \o << <<>> >>

\* variant: the diff's own two header lines kept
hunks_with_headers(diff) == diff

\* diff[2:] when len(diff) > 2, nothing otherwise
hunks_of(diff) == IF Len(diff) > 2 THEN SubSeq(diff, 3, Len(diff)) ELSE <<>>

\* the lines appended for one modified path
modified_block(initial, current, file_path) ==
    << FromPrefix \o <<"a", "/">> \o file_path,
       ToPrefix \o <<"b", "/">> \o file_path >>
    \o hunks_of(unified_diff(splitlines(initial[file_path]),
                             splitlines(current[file_path])))
    \o << <<>> >>

\* the lines appended for one added path
added_block(current, file_path) ==
    << FromPrefix \o DevNull, ToPrefix \o <<"b", "/">> \o file_path >>
    \o LET lines == splitlines(current[file_path])
       IN  [i \in 1..Len(lines) |-> <<"+">> \o rstrip(lines[i])]
    \o << <<>> >>

RECURSIVE reversed(_)
reversed(xs) == IF xs = <<>> THEN <<>> ELSE reversed(Tail(xs)) \o <<Head(xs)>>

\* variant: sorted(..., reverse=True)
sorted_descending(S) == reversed(sorted(S))

\* the order in which a loop of generate_patch visits a set of paths
loop_order(S) == sorted(S)

\* patch_lines after the three loops: deleted, then modified, then added
patch_lines_of(initial, current) ==
    LET ch == changes(initial, current)
        del == loop_order(ch[3])
        mod == loop_order(ch[2])
        add == loop_order(ch[1])
    IN  flatten([i \in 1..Len(del) |-> deleted_block(initial, del[i])])
        \o flatten([i \in 1..Len(mod) |-> modified_block(initial, current, mod[i])])
        \o flatten([i \in 1..Len(add) |-> added_block(current, add[i])])

\* whether every subscript self.initial_files[..] / self.current_files[..]
\* of a reader of get_changes finds its key
lookups_found(initial, current) ==
    LET ch == changes(initial, current)
    IN  /\ ch[3] \subseteq keys(initial)
        /\ ch[2] \subseteq keys(initial) \cap keys(current)
        /\ ch[1] \subseteq keys(current)

generate_patch ==
    /\ IF lookups_found(InitialFiles, CurrentFiles)
       THEN /\ patch_lines' = patch_lines_of(InitialFiles, CurrentFiles)
            /\ ret' = Return("generate_patch", join(<<NL>>, patch_lines'))
       ELSE /\ patch_lines' = <<>>
            /\ ret' = Raise("generate_patch", "KeyError")
    /\ UNCHANGED <<heap, initial_files, current_files, pc>>

-----------------------------------------------------------------------------
(* GitHubAPIBot.get_changed_files_summary *)

\* variant: the before content stored for a modified path
modified_entry_initial(initial, current, file_path) == initial[file_path]

\* the content stored for a path of summary["modified"]
modified_entry(initial, current, file_path) == current[file_path]

summary_of(initial, current) ==
    LET ch == changes(initial, current)
    IN  [added |-> [file_path \in ch[1] |-> current[file_path]],
         modified |-> [file_path \in ch[2] |-> modified_entry(initial, current, file_path)],
         deleted |-> [file_path \in ch[3] |-> initial[file_path]]]

get_changed_files_summary ==
    /\ IF lookups_found(InitialFiles, CurrentFiles)
       THEN ret' = Return("get_changed_files_summary",
                          summary_of(InitialFiles, CurrentFiles))
       ELSE ret' = Raise("get_changed_files_summary", "KeyError")
    /\ patch_lines' = <<>>
    /\ UNCHANGED <<heap, initial_files, current_files, pc>>

-----------------------------------------------------------------------------
(* The store model: every method, on a few paths with short contents *)

\* a step of the store on its own: nothing else moves
Alone == UNCHANGED <<iteration, log, request, scratch, cwd>>

Next ==
    \/ \E repo \in Repos(Paths, StoreBlobs) : initialize_tracking(repo) /\ Alone
    \/ \E file_path \in Paths, content \in StoreContents :
            track_file_change(file_path, content) /\ Alone
    \/ \E file_path \in Paths : track_file_deletion(file_path) /\ Alone
    \/ get_changes /\ Alone
    \/ generate_patch /\ Alone
    \/ get_changed_files_summary /\ Alone

Spec == Init /\ [][Next]_vars

-----------------------------------------------------------------------------
(* The rendering model: one path, every text of up to MaxLines lines *)

RenderPaths == { <<"f">> }

\* terminated lines: plain, with a trailing space, empty
LinePool == { <<"a", NL>>, <<"a", SP, NL>>, <<NL>> }

\* what may follow the last terminated line: nothing, or an unterminated line
TailPool == { <<>>, <<"a">>, <<"a", SP>> }

RECURSIVE LineRuns(_)
LineRuns(n) ==
    IF n = 0 THEN { <<>> }
    ELSE LET shorter == LineRuns(n - 1)
         IN  shorter \cup {l \o t : l \in LinePool, t \in shorter}

RECURSIVE repeat(_, _)
repeat(s, n) == IF n = 0 THEN <<>> ELSE s \o repeat(s, n - 1)

\* two texts whose unchanged middle is longer than twice the context
LongTexts ==
    { <<"a", NL>> \o repeat(<<NL>>, ContextLines + ContextLines + 1) \o <<"a", NL>>,
      <<"a", SP, NL>> \o repeat(<<NL>>, ContextLines + ContextLines + 1) \o <<"a">> }

RenderTexts == {r \o t : r \in LineRuns(MaxLines), t \in TailPool} \cup LongTexts

RenderBlobs == {Blob(TRUE, t) : t \in RenderTexts} \cup {Blob(FALSE, <<>>)}

RenderContents == RenderTexts \cup {BinarySentinel}

NextRender ==
    \/ \E repo \in Repos(RenderPaths, RenderBlobs) :
            initialize_tracking(repo) /\ Alone
    \/ \E file_path \in RenderPaths, content \in RenderContents :
            track_file_change(file_path, content) /\ Alone
    \/ \E file_path \in RenderPaths : track_file_deletion(file_path) /\ Alone
    \/ generate_patch /\ Alone

SpecRender == Init /\ [][NextRender]_vars

-----------------------------------------------------------------------------
(* The session model: the track_file_* calls are logged, and a set of paths *)
(* iterates in any order (str hashes differ from one process to the next)   *)

\* most track_file_* calls of a logged session
MaxCalls == 3

SessionPaths == { <<"b">>, <<"a", "b">> }

SessionBlobs == {Blob(TRUE, t) : t \in RepoTexts}

SessionContents == StoreTexts

\* one logged call; content is the empty text for a deletion
Call(op, file_path, content) ==
    [op |-> op, file_path |-> file_path, content |-> content]

\* every order in which iterating the set S may yield its elements
iterations(S) ==
    {xs \in [1..Cardinality(S) -> S] :
        \A i, j \in 1..Cardinality(S) : xs[i] = xs[j] => i = j}

\* x put in its place in the ascending list xs
RECURSIVE insort(_, _)
insort(xs, x) ==
    IF xs = <<>> THEN <<x>>
    ELSE IF str_lt(x, Head(xs)) THEN <<x>> \o xs
    ELSE <<Head(xs)>> \o insort(Tail(xs), x)

RECURSIVE sort_onto(_, _)
sort_onto(done, xs) ==
    IF xs = <<>> THEN done ELSE sort_onto(insort(done, Head(xs)), Tail(xs))

\* variant: the loop visits the set as it iterates
sorted_skipped(xs) == xs

\* sorted(xs) of an iterable that yields xs
sorted_iterable(xs) == sort_onto(<<>>, xs)

\* modified_files after the loop over `initial_keys & current_keys`
RECURSIVE modified_loop(_, _, _)
modified_loop(initial, current, xs) ==
    IF xs = <<>> THEN {}
    ELSE LET file_path == Head(xs)
             rest == modified_loop(initial, current, Tail(xs))
         IN  IF initial[file_path] # current[file_path]
             THEN {file_path} \cup rest
             ELSE rest

\* get_changes, its intersection iterating as common_iter
get_changes_from(common_iter) ==
    /\ ret' = Return("get_changes",
                     << added_files(InitialFiles, CurrentFiles),
                        modified_loop(InitialFiles, CurrentFiles, common_iter),
                        deleted_files(InitialFiles, CurrentFiles) >>)
    /\ patch_lines' = <<>>
    /\ iteration' = <<common_iter>>
    /\ UNCHANGED <<heap, initial_files, current_files, pc>>

\* patch_lines after the three loops, the sets iterating as given
patch_lines_from(initial, current, deleted_iter, modified_iter, added_iter) ==
    LET del == sorted_iterable(deleted_iter)
        mod == sorted_iterable(modified_iter)
        add == sorted_iterable(added_iter)
    IN  flatten([i \in 1..Len(del) |-> deleted_block(initial, del[i])])
        \o flatten([i \in 1..Len(mod) |-> modified_block(initial, current, mod[i])])
        \o flatten([i \in 1..Len(add) |-> added_block(current, add[i])])

\* generate_patch, its three sets iterating as given
generate_patch_from(deleted_iter, modified_iter, added_iter) ==
    /\ IF lookups_found(InitialFiles, CurrentFiles)
       THEN /\ patch_lines' = patch_lines_from(InitialFiles, CurrentFiles,
                                    deleted_iter, modified_iter, added_iter)
            /\ ret' = Return("generate_patch", join(<<NL>>, patch_lines'))
       ELSE /\ patch_lines' = <<>>
            /\ ret' = Raise("generate_patch", "KeyError")
    /\ iteration' = <<deleted_iter, modified_iter, added_iter>>
    /\ UNCHANGED <<heap, initial_files, current_files, pc>>

NextSession ==
    \/ \E repo \in Repos(SessionPaths, SessionBlobs) :
            /\ initialize_tracking(repo)
            /\ log' = <<>>
            /\ iteration' = <<>>
            /\ UNCHANGED server_vars
    \/ \E file_path \in SessionPaths, content \in SessionContents :
            /\ Len(log) < MaxCalls
            /\ track_file_change(file_path, content)
            /\ log' = Append(log, Call("track_file_change", file_path, content))
            /\ iteration' = <<>>
            /\ UNCHANGED server_vars
    \/ \E file_path \in SessionPaths :
            /\ Len(log) < MaxCalls
            /\ track_file_deletion(file_path)
            /\ log' = Append(log, Call("track_file_deletion", file_path, <<>>))
            /\ iteration' = <<>>
            /\ UNCHANGED server_vars
    \/ \E common_iter \in iterations(keys(InitialFiles) \cap keys(CurrentFiles)) :
            /\ get_changes_from(common_iter)
            /\ UNCHANGED <<log, request, scratch, cwd>>
    \/ \E deleted_iter \in iterations(deleted_files(InitialFiles, CurrentFiles)),
          modified_iter \in iterations(modified_files(InitialFiles, CurrentFiles)),
          added_iter \in iterations(added_files(InitialFiles, CurrentFiles)) :
            /\ generate_patch_from(deleted_iter, modified_iter, added_iter)
            /\ UNCHANGED <<log, request, scratch, cwd>>

SpecSession == Init /\ [][NextSession]_vars

-----------------------------------------------------------------------------
(* Properties of the snapshot store and the classifier *)

Before == InitialFiles

After == CurrentFiles

\* paths of both snapshots whose two contents are equal
UnchangedPaths == {p \in keys(Before) \cap keys(After) : Before[p] = After[p]}

Returned(op) == ret.op = op /\ ret.exc = "none"

\* C1: after initialize_tracking and any track_file_change /
\* track_file_deletion calls, the three sets get_changes returns are pairwise
\* disjoint and, with the unchanged paths, cover exactly
\* keys(initial_files) union keys(current_files).
C1_ChangesPartition ==
    (pc = "tracking" /\ Returned("get_changes")) =>
        LET added == ret.value[1]
            modified == ret.value[2]
            deleted == ret.value[3]
        IN  /\ added \cap modified = {}
            /\ added \cap deleted = {}
            /\ modified \cap deleted = {}
            /\ added \cup modified \cup deleted \cup UnchangedPaths
                    = keys(Before) \cup keys(After)

C1_Witness ==
    /\ pc = "tracking"
    /\ Returned("get_changes")
    /\ ret.value[1] # {}
    /\ ret.value[2] # {}
    /\ ret.value[3] # {}

\* C2: get_changes returns exactly added = keys(after) - keys(before),
\* deleted = keys(before) - keys(after), modified = the paths of both whose
\* contents differ; two entries that both hold the binary marker are equal
\* and not modified.
C2_ChangesExact ==
    Returned("get_changes") =>
        /\ ret.value[1] = {p \in keys(After) : p \notin keys(Before)}
        /\ ret.value[3] = {p \in keys(Before) : p \notin keys(After)}
        /\ \A p \in keys(Before) \cup keys(After) :
                p \in ret.value[2] <=>
                    /\ p \in keys(Before)
                    /\ p \in keys(After)
                    /\ Before[p] # After[p]
        /\ \A p \in keys(Before) \cap keys(After) :
                (Before[p] = BinarySentinel /\ After[p] = BinarySentinel)
                    => p \notin ret.value[2]

C2_Witness ==
    /\ Returned("get_changes")
    /\ ret.value[1] # {}
    /\ ret.value[2] # {}
    /\ \E p \in keys(Before) \cap keys(After) :
            Before[p] = BinarySentinel /\ After[p] = BinarySentinel

\* C3: once initialize_tracking has captured initial_files, no later call
\* changes it; current_files starts equal to it and is another dict object,
\* so that mutating current_files never alters initial_files.
C3_BeforeFrozen ==
    [][ /\ (pc = "constructed" /\ pc' = "tracking") =>
              /\ heap'[current_files'] = heap'[initial_files']
              /\ current_files' # initial_files'
        /\ pc = "tracking" =>
              /\ initial_files' = initial_files
              /\ heap'[initial_files'] = heap[initial_files] ]_vars

C3_Witness ==
    /\ pc = "tracking"
    /\ ret.op = "track_file_change"
    /\ Before # EmptyDict
    /\ \E p \in keys(Before) \cap keys(After) : Before[p] # After[p]

\* C4: track_file_deletion(p) twice leaves the state that once leaves, and
\* is a no-op without error when p is absent; track_file_change(p, c) twice
\* with the same c leaves the state that once leaves.
C4_MutationIdempotent ==
    [][ /\ \A p \in Paths :
              track_file_deletion(p) =>
                  /\ ret'.exc = "none"
                  /\ p \notin keys(After) => heap' = heap
                  /\ LET again == deletion_result(heap'[current_files'], p)
                     IN  /\ again.exc = "none"
                         /\ again.dict = heap'[current_files']
        /\ \A p \in Paths, c \in StoreContents :
              track_file_change(p, c) =>
                  change_result(heap'[current_files'], p, c)
                      = heap'[current_files'] ]_vars

C4_Witness ==
    /\ pc = "tracking"
    /\ ret.op = "track_file_deletion"
    /\ keys(Before) \ keys(After) # {}
    /\ \E p \in keys(Before) \cap keys(After) : Before[p] # After[p]

\* C5: whenever the two snapshots have the same keys and the same content
\* on every key, generate_patch returns the empty string and
\* get_changed_files_summary a mapping whose three categories are empty;
\* neither raises.
SameSnapshots ==
    /\ keys(Before) = keys(After)
    /\ \A p \in keys(Before) : Before[p] = After[p]

C5_EmptyDiff ==
    SameSnapshots =>
        /\ ret.op \in {"generate_patch", "get_changed_files_summary"}
                => ret.exc = "none"
        /\ Returned("generate_patch") => ret.value = <<>>
        /\ Returned("get_changed_files_summary") =>
                /\ keys(ret.value.added) = {}
                /\ keys(ret.value.modified) = {}
                /\ keys(ret.value.deleted) = {}

C5_Witness ==
    /\ pc = "tracking"
    /\ SameSnapshots
    /\ \E p \in keys(Before) : Before[p] = BinarySentinel
    /\ \E p \in keys(Before) : Before[p] # BinarySentinel
    /\ Returned("generate_patch")
    /\ ret.value = <<>>

-----------------------------------------------------------------------------
(* Reading a patch back *)

starts_with(s, prefix) ==
    Len(s) >= Len(prefix) /\ SubSeq(s, 1, Len(prefix)) = prefix

drop(s, n) == SubSeq(s, n + 1, Len(s))

\* text.split("\n")
RECURSIVE str_split(_)
str_split(s) ==
    IF \E i \in 1..Len(s) : s[i] = NL
    THEN LET k == CHOOSE i \in 1..Len(s) :
                     s[i] = NL /\ \A j \in 1..(i - 1) : s[j] # NL
         IN  <<SubSeq(s, 1, k - 1)>> \o str_split(drop(s, k))
    ELSE <<s>>

\* the lines of a patch text; the empty text has none
TextLines(text) == IF text = <<>> THEN <<>> ELSE str_split(text)

\* the pairs of file-header lines ("--- ..." followed by "+++ ...") of a
\* sequence of lines, in their order
RECURSIVE headers_from(_, _)
headers_from(lines, n) ==
    IF n >= Len(lines) THEN <<>>
    ELSE IF starts_with(lines[n], FromPrefix) /\ starts_with(lines[n + 1], ToPrefix)
         THEN << <<lines[n], lines[n + 1]>> >> \o headers_from(lines, n + 2)
         ELSE headers_from(lines, n + 1)

FromA == FromPrefix \o <<"a", "/">>

ToB == ToPrefix \o <<"b", "/">>

\* category and path that the two header lines of a block state
block_kind(block) ==
    IF Len(block) < 2 THEN "malformed"
    ELSE IF block[1] = FromPrefix \o DevNull /\ starts_with(block[2], ToB)
    THEN "added"
    ELSE IF starts_with(block[1], FromA) /\ block[2] = ToPrefix \o DevNull
    THEN "deleted"
    ELSE IF starts_with(block[1], FromA) /\ block[2] = ToB \o drop(block[1], Len(FromA))
    THEN "modified"
    ELSE "malformed"

block_path(block) ==
    IF block_kind(block) = "added" THEN drop(block[2], Len(ToB))
    ELSE drop(block[1], Len(FromA))

\* position of a category in the patch
kind_rank(kind) ==
    CASE kind = "deleted" -> 1
      [] kind = "modified" -> 2
      [] kind = "added" -> 3
      [] OTHER -> 0

\* the (category, path) pairs of the current snapshots
ExpectedBlocks ==
    {<<"deleted", p>> : p \in keys(Before) \ keys(After)}
    \cup {<<"added", p>> : p \in keys(After) \ keys(Before)}
    \cup {<<"modified", p>> : p \in {q \in keys(Before) \cap keys(After) :
                                        Before[q] # After[q]}}

\* the blocks of the returned text, each by its two header lines
ReturnedHeaders == headers_from(TextLines(ret.value), 1)

\* C6: in the text generate_patch returns every changed path has exactly
\* one block, deleted blocks precede modified blocks, which precede added
\* blocks, and inside a category the paths strictly increase
\* lexicographically.
C6_BlockOrder ==
    Returned("generate_patch") =>
        LET B == ReturnedHeaders
        IN  /\ Len(B) = Cardinality(ExpectedBlocks)
            /\ {<<block_kind(B[i]), block_path(B[i])>> : i \in 1..Len(B)}
                    = ExpectedBlocks
            /\ \A i \in 1..Len(B), j \in 1..Len(B) :
                    i < j =>
                        /\ kind_rank(block_kind(B[i])) <= kind_rank(block_kind(B[j]))
                        /\ block_kind(B[i]) = block_kind(B[j])
                                => str_lt(block_path(B[i]), block_path(B[j]))

C6_Witness ==
    /\ Returned("generate_patch")
    /\ Len(ReturnedHeaders) = 3
    /\ block_kind(ReturnedHeaders[1]) = "deleted"
    /\ block_kind(ReturnedHeaders[2]) = "deleted"
    /\ block_kind(ReturnedHeaders[3]) = "modified"

\* C10: get_changed_files_summary returns a mapping with exactly the keys
\* added, modified and deleted, whose key sets are the three sets of
\* get_changes in the same state and whose values are the after content of
\* every added and every modified path and the before content of every
\* deleted path; its paths are exactly the paths with a block in
\* generate_patch's output.
C10_Summary ==
    Returned("get_changed_files_summary") =>
        LET summary == ret.value
            ch == changes(Before, After)
            text == join(<<NL>>, patch_lines_of(Before, After))
            blocks == headers_from(TextLines(text), 1)
        IN  /\ DOMAIN summary = {"added", "modified", "deleted"}
            /\ keys(summary.added) = ch[1]
            /\ keys(summary.modified) = ch[2]
            /\ keys(summary.deleted) = ch[3]
            /\ \A p \in keys(summary.added) : summary.added[p] = After[p]
            /\ \A p \in keys(summary.modified) : summary.modified[p] = After[p]
            /\ \A p \in keys(summary.deleted) : summary.deleted[p] = Before[p]
            /\ {block_path(blocks[i]) : i \in 1..Len(blocks)}
                    = keys(summary.added) \cup keys(summary.modified)
                        \cup keys(summary.deleted)
            /\ Len(blocks) = Cardinality(keys(summary.added))
                                + Cardinality(keys(summary.modified))
                                + Cardinality(keys(summary.deleted))

C10_Witness ==
    /\ pc = "tracking"
    /\ Returned("get_changed_files_summary")
    /\ keys(ret.value.added) # {}
    /\ keys(ret.value.modified) # {}
    /\ keys(ret.value.deleted) # {}

-----------------------------------------------------------------------------
(* Properties of the rendered lines *)

\* the runs of patch_lines that end at an empty entry, the entry left out:
\* what each loop iteration of generate_patch appended
RECURSIVE blocks_from(_, _, _)
blocks_from(lines, n, block) ==
    IF n > Len(lines)
    THEN IF block = <<>> THEN <<>> ELSE <<block>>
    ELSE IF lines[n] = <<>>
         THEN <<block>> \o blocks_from(lines, n + 1, <<>>)
         ELSE blocks_from(lines, n + 1, Append(block, lines[n]))

PatchBlocks == blocks_from(patch_lines, 1, <<>>)

\* C7: the only empty lines of the patch text are the block separators,
\* one at the end of each block: the text is the rendered lines joined by
\* one newline, and every header, hunk-header and body line is exactly one
\* line of the text and carries no line terminator of its own.
C7_OneLinePerEntry ==
    Returned("generate_patch") =>
        LET T == TextLines(ret.value)
        IN  /\ ret.value = join(<<NL>>, patch_lines)
            /\ \A i \in 1..Len(patch_lines) :
                    \A k \in 1..Len(patch_lines[i]) :
                        patch_lines[i][k] \notin LineBreaks
            /\ T = patch_lines
            /\ Cardinality({i \in 1..Len(T) : T[i] = <<>>})
                    = Cardinality(ExpectedBlocks)

\* a line without its line terminator, every other character kept
without_terminator(line) ==
    IF Len(line) >= 2 /\ line[Len(line) - 1] = "\r" /\ line[Len(line)] = "\n"
    THEN SubSeq(line, 1, Len(line) - 2)
    ELSE IF line # <<>> /\ line[Len(line)] \in LineBreaks
    THEN SubSeq(line, 1, Len(line) - 1)
    ELSE line

whole_file_lines(sign, content) ==
    LET lines == splitlines(content)
    IN  [i \in 1..Len(lines) |-> <<sign>> \o without_terminator(lines[i])]

\* C8: the block of a deleted path is "--- a/<path>", "+++ /dev/null" and
\* one line per line of the before content: "-" and the line with only its
\* terminator removed; the block of an added path is "--- /dev/null",
\* "+++ b/<path>" and "+" and each line of the after content likewise.  A
\* last line without terminator is rendered as it is.
C8_WholeFileBlocks ==
    Returned("generate_patch") =>
        \A i \in 1..Len(PatchBlocks) :
            LET block == PatchBlocks[i]
                p == block_path(block)
            IN  /\ block_kind(block) = "deleted" =>
                    block = << FromA \o p, ToPrefix \o DevNull >>
                            \o whole_file_lines("-", Before[p])
                /\ block_kind(block) = "added" =>
                    block = << FromPrefix \o DevNull, ToB \o p >>
                            \o whole_file_lines("+", After[p])

\* the lines of a block after line n up to the next hunk header
RECURSIVE hunk_body(_, _)
hunk_body(block, n) ==
    IF n >= Len(block) \/ starts_with(block[n + 1], <<"@">>) THEN <<>>
    ELSE <<block[n + 1]>> \o hunk_body(block, n + 1)

count_starting(lines, signs) ==
    Cardinality({i \in 1..Len(lines) : lines[i] # <<>> /\ lines[i][1] \in signs})

\* the range of one side of a hunk header: "<start>,<len>" for every
\* length (style "explicit"), or "<start>" alone for a side of one line
\* and "<start>,<len>" otherwise (style "short")
range_text(style, start, length) ==
    IF style = "short" /\ length = 1 THEN str_of_int(start)
    ELSE str_of_int(start) \o <<",">> \o str_of_int(length)

\* whether block line n is the hunk header of the lines that follow it,
\* its two ranges written in the given style
hunk_header_of_body(block, n, style) ==
    LET body == hunk_body(block, n)
        len1 == count_starting(body, {" ", "-"})
        len2 == count_starting(body, {" ", "+"})
    IN  \E s1 \in 0..Len(splitlines(Before[block_path(block)])),
           s2 \in 0..Len(splitlines(After[block_path(block)])) :
            block[n] = <<"@", "@", " ", "-">> \o range_text(style, s1, len1)
                       \o <<" ", "+">> \o range_text(style, s2, len2)
                       \o <<" ", "@", "@">>

\* a modified block: the two synthesized headers, then hunks only, each
\* with a header whose ranges are written in the given style
modified_blocks_wellformed(style) ==
    /\ {block_path(PatchBlocks[i]) :
            i \in {j \in 1..Len(PatchBlocks) : block_kind(PatchBlocks[j]) = "modified"}}
        = {p \in keys(Before) \cap keys(After) : Before[p] # After[p]}
    /\ \A i \in 1..Len(PatchBlocks) :
        LET block == PatchBlocks[i]
        IN  block_kind(block) = "modified" =>
                /\ Len(block) >= 3
                /\ starts_with(block[3], <<"@", "@">>)
                /\ \A n \in 3..Len(block) :
                        IF starts_with(block[n], <<"@">>)
                        THEN hunk_header_of_body(block, n, style)
                        ELSE /\ block[n][1] \in {" ", "-", "+"}
                             /\ block[n] \notin {FromPrefix, ToPrefix}

\* C9 as claimed: every modified block starts with "--- a/<path>" and
\* "+++ b/<path>", the diff's own two header lines discarded, and every
\* hunk header is "@@ -<start>,<len> +<start>,<len> @@" with start and
\* length explicit on both sides, for every length, 0 and 1 included.
C9_ExplicitRanges ==
    Returned("generate_patch") => modified_blocks_wellformed("explicit")

\* C9: every modified block starts with "--- a/<path>" and "+++ b/<path>",
\* the diff's own two header lines discarded, and every hunk header is
\* "@@ -<range> +<range> @@" where the range of a side is "<start>,<len>",
\* except that a side of exactly one line is written "<start>" alone.
C9_HunkHeaders ==
    Returned("generate_patch") => modified_blocks_wellformed("short")

C9_Witness ==
    /\ Returned("generate_patch")
    /\ Len(patch_lines) > 3
    /\ patch_lines[3] = <<"@", "@", " ", "-", "0", ",", "0", " ", "+", "1", " ", "@", "@">>

-----------------------------------------------------------------------------
(* Properties of a logged session *)

\* C11: what a reader returns is decided by the two snapshots alone.  Every
\* get_changes return is the classification of the snapshots and every
\* generate_patch return is the text rendered from them in ascending path
\* order, whatever calls built the snapshots and in whatever order the
\* sets of the call iterated; and a reader called again on unchanged
\* snapshots returns the value it returned before.
C11_Deterministic ==
    [][ /\ (ret'.op = "generate_patch" /\ ret'.exc = "none")
            => /\ ret'.value = join(<<NL>>, patch_lines_of(heap'[initial_files'],
                                                         heap'[current_files']))
               /\ (Returned("generate_patch") /\ heap' = heap)
                    => ret'.value = ret.value
        /\ (ret'.op = "get_changes" /\ ret'.exc = "none")
            => /\ ret'.value = changes(heap'[initial_files'], heap'[current_files'])
               /\ (Returned("get_changes") /\ heap' = heap)
                    => ret'.value = ret.value ]_vars

\* a patch of two paths of one category, returned after at least two
\* logged calls, whose set iterated in descending order
C11_Witness ==
    /\ Returned("generate_patch")
    /\ pc = "tracking"
    /\ Len(log) >= 2
    /\ \E i \in 1..Len(iteration) :
            /\ Len(iteration[i]) = 2
            /\ iteration[i] # sorted_iterable(iteration[i])

\* the positions of the log whose call names file_path
calls_on(file_path) == {i \in 1..Len(log) : log[i].file_path = file_path}

\* the last logged call that names file_path
last_call_on(file_path) ==
    log[CHOOSE i \in calls_on(file_path) : \A j \in calls_on(file_path) : j <= i]

\* the category a get_changes tuple gives a path
category_of(ch, file_path) ==
    IF file_path \in ch[1] THEN "added"
    ELSE IF file_path \in ch[2] THEN "modified"
    ELSE IF file_path \in ch[3] THEN "deleted"
    ELSE "none"

\* C15: the category get_changes gives a path does not remember the calls
\* that led to the snapshots.  Whatever was called before: a path of before
\* whose last call recorded its before content again is in no category; a
\* path of before whose last call recorded any content is modified or in no
\* category, never added or deleted; a path outside before whose last call
\* deleted it is in no category.
C15_HistoryFree ==
    Returned("get_changes") =>
        \A file_path \in SessionPaths :
            calls_on(file_path) # {} =>
                LET last == last_call_on(file_path)
                    category == category_of(ret.value, file_path)
                IN  /\ ( /\ file_path \in keys(Before)
                         /\ last.op = "track_file_change"
                         /\ last.content = Before[file_path] )
                            => category = "none"
                    /\ ( /\ file_path \in keys(Before)
                         /\ last.op = "track_file_change" )
                            => category \in {"modified", "none"}
                    /\ ( /\ file_path \notin keys(Before)
                         /\ last.op = "track_file_deletion" )
                            => category = "none"

\* get_changes has returned for a path of before that was deleted and
\* then recorded again with its before content
C15_Witness ==
    /\ Returned("get_changes")
    /\ \E file_path \in keys(Before) :
        \E i \in calls_on(file_path) :
            /\ log[i].op = "track_file_deletion"
            /\ i < Len(log)
            /\ last_call_on(file_path) =
                    Call("track_file_change", file_path, Before[file_path])

-----------------------------------------------------------------------------
(* main.py: process_claude_request.  The handler is a coroutine: it runs   *)
(* without interruption from one suspension to the next, and it is         *)
(* suspended only inside `async for ... in query(...)`, where the agent    *)
(* process is started and runs.  A request id also names the temporary     *)
(* directory made for that request.                                        *)

\* most edits of one agent run
MaxEdits == 2

CR == "\r"

\* Path.write_text(content): the bytes of the text (a "\n" is written as it
\* is, os.linesep being "\n")
write_text(content) == Blob(TRUE, content)

\* what a text-mode read gives for the text of a file: every "\r\n" and
\* every lone "\r" comes back as "\n"
RECURSIVE universal_newlines(_)
universal_newlines(s) ==
    IF s = <<>> THEN <<>>
    ELSE IF Head(s) = CR
         THEN IF Len(s) >= 2 /\ s[2] = NL
              THEN <<NL>> \o universal_newlines(drop(s, 2))
              ELSE <<NL>> \o universal_newlines(Tail(s))
         ELSE <<Head(s)>> \o universal_newlines(Tail(s))

\* open(file_path, 'r').read() of a file whose bytes decode
read_text(blob) == universal_newlines(blob.text)

\* the files the handler writes into its new directory: every entry but
\* those whose content is the marker
written_files(files) ==
    [file_path \in {q \in keys(files) : files[q] # BinarySentinel} |->
        write_text(files[file_path])]

\* variant: a file whose read raises is recorded as deleted
walk_entry_unreadable_deleted(initial, current, file_path, blob) ==
    IF starts_with(file_path, <<".">>) THEN current
    ELSE IF ~blob.decodable THEN deletion_result(current, file_path).dict
    ELSE LET content == read_text(blob)
         IN  IF file_path \in keys(initial)
             THEN IF content # initial[file_path]
                  THEN change_result(current, file_path, content)
                  ELSE current
             ELSE change_result(current, file_path, content)

\* bot.current_files after the body of the walk for one file: a path
\* starting with "." is skipped, a read that raises is passed over
walk_entry(initial, current, file_path, blob) ==
    IF starts_with(file_path, <<".">>) THEN current
    ELSE IF ~blob.decodable THEN current
    ELSE LET content == read_text(blob)
         IN  IF file_path \in keys(initial)
             THEN IF content # initial[file_path]
                  THEN change_result(current, file_path, content)
                  ELSE current
             ELSE change_result(current, file_path, content)

\* bot.current_files after the walk over the files of the directory
RECURSIVE walk_loop(_, _, _, _)
walk_loop(initial, current, files, order) ==
    IF order = <<>> THEN current
    ELSE walk_loop(initial,
                   walk_entry(initial, current, Head(order), files[Head(order)]),
                   files, Tail(order))

\* bot.current_files after the loop over the initial paths: a path with no
\* file in the directory is deleted
RECURSIVE exists_loop(_, _, _)
exists_loop(current, files, order) ==
    IF order = <<>> THEN current
    ELSE exists_loop(IF Head(order) \notin keys(files)
                     THEN deletion_result(current, Head(order)).dict
                     ELSE current,
                     files, Tail(order))

\* bot.current_files after both loops
collected(initial, files) ==
    exists_loop(walk_loop(initial, initial, files, sorted(keys(files))),
                files, sorted(keys(initial)))

\* the JSON body of a completed request
result_of(initial, current) ==
    [status_code |-> 200,
     patch |-> join(<<NL>>, patch_lines_of(initial, current)),
     changed_files |-> summary_of(initial, current)]

\* an error response
error_response(status_code) ==
    [status_code |-> status_code, patch |-> <<>>, changed_files |-> None]

\* every step of the handler leaves the bot outside the requests alone
Handling ==
    UNCHANGED <<heap, initial_files, current_files, pc, ret, patch_lines,
                iteration, log>>

\* create_branch raises something other than "Reference already exists"
create_branch_fails(r) ==
    /\ request[r].pc = "accepted"
    /\ request' = [request EXCEPT ![r].pc = "done",
                                  ![r].response = error_response(400)]
    /\ UNCHANGED <<scratch, cwd>>
    /\ Handling

\* from the new bot to os.chdir: the branch is read into both snapshots,
\* its files are written into a new temporary directory and the process
\* moves there
enter_temp_dir(r, repo) ==
    /\ request[r].pc = "accepted"
    /\ LET files == get_all_files(repo)
       IN  /\ request' = [request EXCEPT ![r].pc = "prepared",
                                         ![r].initial_files = files,
                                         ![r].current_files = files,
                                         ![r].own = written_files(files)]
           /\ scratch' = [scratch EXCEPT ![r] =
                            [exists |-> TRUE, files |-> written_files(files)]]
    /\ cwd' = r
    /\ Handling

\* query(...) starts the agent process, which inherits the working
\* directory the server process has at that moment
query_starts(r) ==
    /\ request[r].pc = "prepared"
    /\ request' = [request EXCEPT ![r].pc = "running", ![r].agent_dir = cwd]
    /\ UNCHANGED <<scratch, cwd>>
    /\ Handling

\* the directory after an edit: a file written, or removed (blob = None)
edited(files, file_path, blob) ==
    IF blob = None
    THEN [q \in keys(files) \ {file_path} |-> files[q]]
    ELSE [q \in keys(files) \cup {file_path} |->
            IF q = file_path THEN blob ELSE files[q]]

\* the agent of request r writes or removes a file of its working directory
agent_edits(r, file_path, blob) ==
    LET dir == request[r].agent_dir
    IN  /\ request[r].pc = "running"
        /\ request[r].edits < MaxEdits
        /\ scratch[dir].exists
        /\ scratch' = [scratch EXCEPT ![dir].files = edited(@, file_path, blob)]
        /\ request' = [request EXCEPT
                ![r].edits = @ + 1,
                ![r].touched = @ \cup {file_path},
                ![r].own = IF dir = r THEN edited(@, file_path, blob) ELSE @]
        /\ UNCHANGED cwd
        /\ Handling

\* query(...) raises: the handler leaves the `with` block, which removes
\* the directory, and answers 500
query_raises(r) ==
    /\ request[r].pc \in {"prepared", "running"}
    /\ request' = [request EXCEPT ![r].pc = "done",
                                  ![r].response = error_response(500)]
    /\ scratch' = [scratch EXCEPT ![r] = [exists |-> FALSE, files |-> EmptyDict]]
    /\ UNCHANGED cwd
    /\ Handling

\* from the end of the agent run to the response: the walk, the loop over
\* the initial paths, the end of the `with` block, the patch and the summary
collect_changes(r) ==
    /\ request[r].pc = "running"
    /\ LET initial == request[r].initial_files
           files == scratch[r].files
           current == collected(initial, files)
       IN  request' = [request EXCEPT ![r].pc = "done",
                                      ![r].seen = files,
                                      ![r].current_files = current,
                                      ![r].response = result_of(initial, current)]
    /\ scratch' = [scratch EXCEPT ![r] = [exists |-> FALSE, files |-> EmptyDict]]
    /\ UNCHANGED cwd
    /\ Handling

-----------------------------------------------------------------------------
(* One request: a branch of two paths, one of them starting with "." *)

ProcessIds == {"r1"}

ProcessPaths == { <<"b">>, <<".", "b">> }

\* blobs of the branch: a text, a text with "\r\n" line ends, bytes that
\* do not decode
ProcessBlobs ==
    { Blob(TRUE, <<"a", NL>>), Blob(TRUE, <<"a", CR, NL>>), Blob(FALSE, <<>>) }

\* what the agent writes: two texts, and bytes that do not decode
AgentBlobs ==
    { Blob(TRUE, <<"a", NL>>), Blob(TRUE, <<"a">>), Blob(FALSE, <<>>) }

InitProcess == GitHubAPIBot /\ Serving(ProcessIds)

NextProcess ==
    \/ \E r \in ProcessIds : create_branch_fails(r)
    \/ \E r \in ProcessIds, repo \in Repos(ProcessPaths, ProcessBlobs) :
            enter_temp_dir(r, repo)
    \/ \E r \in ProcessIds : query_starts(r)
    \/ \E r \in ProcessIds, file_path \in ProcessPaths,
          blob \in AgentBlobs \cup {None} :
            agent_edits(r, file_path, blob)
    \/ \E r \in ProcessIds : query_raises(r)
    \/ \E r \in ProcessIds : collect_changes(r)

SpecProcess == InitProcess /\ [][NextProcess]_vars

-----------------------------------------------------------------------------
(* Two requests in flight in one server process: a branch of one path *)

ConcurrentIds == {"r1", "r2"}

ConcurrentPaths == { <<"b">> }

ConcurrentBlobs == { Blob(TRUE, <<"a", NL>>) }

ConcurrentWrites == { Blob(TRUE, <<"a">>) }

InitConcurrent == GitHubAPIBot /\ Serving(ConcurrentIds)

NextConcurrent ==
    \/ \E r \in ConcurrentIds : create_branch_fails(r)
    \/ \E r \in ConcurrentIds, repo \in Repos(ConcurrentPaths, ConcurrentBlobs) :
            enter_temp_dir(r, repo)
    \/ \E r \in ConcurrentIds : query_starts(r)
    \/ \E r \in ConcurrentIds, file_path \in ConcurrentPaths,
          blob \in ConcurrentWrites \cup {None} :
            agent_edits(r, file_path, blob)
    \/ \E r \in ConcurrentIds : query_raises(r)
    \/ \E r \in ConcurrentIds : collect_changes(r)

SpecConcurrent == InitConcurrent /\ [][NextConcurrent]_vars

-----------------------------------------------------------------------------
(* Properties of the request handler *)

\* the request has been answered with its result
Answered(r) == request[r].pc = "done" /\ request[r].response.status_code = 200

\* C12: two requests in flight do not reach each other.  Whatever the
\* interleaving of their steps, the result a request is answered with is
\* the one its handler computes from a directory that holds the files the
\* request wrote there and the edits of its own agent run, and nothing else.
C12_Isolated ==
    \A r \in DOMAIN request :
        Answered(r) =>
            request[r].response =
                result_of(request[r].initial_files,
                          collected(request[r].initial_files, request[r].own))

\* the category the changed_files of a response give a path
category_in(changed_files, file_path) ==
    IF file_path \in DOMAIN changed_files.added THEN "added"
    ELSE IF file_path \in DOMAIN changed_files.modified THEN "modified"
    ELSE IF file_path \in DOMAIN changed_files.deleted THEN "deleted"
    ELSE "none"

\* the directory holds a file for the path, and reading it raises
unreadable(files, file_path) ==
    IF file_path \in keys(files) THEN ~files[file_path].decodable ELSE FALSE

\* C13 as stated: a path of the initial snapshot whose file could not be
\* read back after the agent run, being absent or unreadable, is in the
\* deleted category of the result.
C13_UnreadDeleted ==
    \A r \in DOMAIN request :
        Answered(r) =>
            \A file_path \in keys(request[r].initial_files) :
                ( \/ file_path \notin keys(request[r].seen)
                  \/ unreadable(request[r].seen, file_path) )
                    => category_in(request[r].response.changed_files, file_path)
                            = "deleted"

\* C13 amended: a path of the initial snapshot with no file in the
\* directory after the agent run is in the deleted category; a path whose
\* file is there but cannot be read is in no category; and a request whose
\* walk met an unreadable file is answered with a result, not an error.
C13_AbsentDeleted ==
    \A r \in DOMAIN request :
        /\ Answered(r) =>
            \A file_path \in keys(request[r].initial_files) :
                LET category == category_in(request[r].response.changed_files,
                                            file_path)
                IN  /\ file_path \notin keys(request[r].seen)
                        => category = "deleted"
                    /\ unreadable(request[r].seen, file_path)
                        => category = "none"
        /\ (\E file_path \in keys(request[r].seen) :
                unreadable(request[r].seen, file_path))
                    => request[r].response.status_code = 200

\* a request answered after its agent left undecodable bytes in a file of
\* the initial snapshot that the walk does not skip
C13_Witness ==
    \E r \in DOMAIN request :
        /\ Answered(r)
        /\ \E file_path \in keys(request[r].initial_files) :
            /\ ~starts_with(file_path, <<".">>)
            /\ file_path \in request[r].touched
            /\ unreadable(request[r].seen, file_path)

\* C14: a path of the initial snapshot that the agent run neither wrote nor
\* removed is in no category of the response, whatever its initial entry;
\* and a response to an agent run without edits has an empty patch and
\* three empty categories.
C14_UntouchedUnchanged ==
    \A r \in DOMAIN request :
        Answered(r) =>
            /\ \A file_path \in keys(request[r].initial_files) \ request[r].touched :
                    category_in(request[r].response.changed_files, file_path)
                        = "none"
            /\ request[r].touched = {}
                => /\ request[r].response.patch = <<>>
                   /\ DOMAIN request[r].response.changed_files.added = {}
                   /\ DOMAIN request[r].response.changed_files.modified = {}
                   /\ DOMAIN request[r].response.changed_files.deleted = {}

=============================================================================
